---- MODULE Spec2Model ----
\* A state-machine model of the p2p node in src/src/main.rs: the identity
\* store (keypair), the peer list loader (peers) and main's start-up, dial
\* loop and driver loop.  The filesystem persists across process runs; the
\* libp2p swarm is the environment: main sees it only through the values
\* that listen_on, dial and poll_next_unpin return.
EXTENDS Integers, Sequences, FiniteSets, TLC

\* ---------------------------------------------------------------- bounds
NumKeys == 2         \* keypairs the generator may produce
MaxRuns == 2         \* process runs over one filesystem
MaxPeersLen == 5     \* characters in the peer list file
MaxEvents == 2       \* swarm events the driver polls in one run

\* ------------------------------------------------------------- constants
KeyLen == 64         \* the read buffer [0; 64], the length of an encoded key

\* ---------------------------------------------------------------- values
Ok(v) == [tag |-> "Ok", val |-> v, err |-> "none"]
Err(e) == [tag |-> "Err", val |-> <<>>, err |-> e]
NotCalled == [tag |-> "None", val |-> <<>>, err |-> "none"]

\* A path of the filesystem: missing, or a file with its bytes.
Absent == [exists |-> FALSE, bytes |-> <<>>]
File(b) == [exists |-> TRUE, bytes |-> b]

\* ------------------------------------------------------- identity store
KeyIds == 0 .. (NumKeys - 1)

\* Keypair::encode: the KeyLen bytes of keypair k (secret half, public half).
\* The sample holds a keypair whose last byte is 0x00 (k = 0).
encode(k) ==
    [i \in 1 .. KeyLen |-> IF i = KeyLen THEN k % 256 ELSE ((k + 1) * i) % 256]

ValidKeyMaterial == { encode(k) : k \in KeyIds }

\* Keypair::decode: the keypair of a buffer that holds an encoding, a
\* DecodingError for any other buffer.
decode(buf) == IF buf \in ValidKeyMaterial THEN Ok(buf) ELSE Err("Decoding")

\* let mut keypair = [0; 64]
ZeroBuf == [i \in 1 .. KeyLen |-> 0]

\* File::read(&mut buf): one read fills the buffer from the start of the
\* file with as many bytes as the file holds, at most the buffer's length;
\* the rest of the buffer keeps its content.
ReadShort(bytes, buf) ==
    [i \in 1 .. Len(buf) |->
        IF i <= Len(bytes) /\ i < Len(buf) THEN bytes[i] ELSE buf[i]]

Read(bytes, buf) ==
    [i \in 1 .. Len(buf) |-> IF i <= Len(bytes) THEN bytes[i] ELSE buf[i]]

\* File::create(path)?.write(bytes): the file is created empty and receives
\* the bytes.
CreateAndWrite(bytes) == File(<<>> \o bytes)

\* PeerId::from(keypair.public()): a function of the public half.
PeerIdOf(key) == SubSeq(key, (KeyLen \div 2) + 1, KeyLen)

\* fn keypair: the value returned and the key file afterwards; k is the
\* keypair the generator draws when the file is missing.
keypair(file, k) ==
    IF ~file.exists
    THEN [ret |-> Ok(encode(k)), file |-> CreateAndWrite(encode(k))]
    ELSE [ret |-> decode(Read(file.bytes, ZeroBuf)), file |-> file]

\* ----------------------------------------------------- peer list loader
\* The characters of the peer list file: the separator "/", the line feed,
\* "q" the name of a supported protocol that takes no argument, "?" any
\* other text.
Chars == {"/", "\n", "q", "?"}

RECURSIVE SplitOn(_, _)
\* str::split(sep): the pieces between the separators, n separators giving
\* n + 1 pieces.
SplitOn(s, sep) ==
    IF \A i \in 1 .. Len(s) : s[i] # sep
    THEN <<s>>
    ELSE LET i == CHOOSE j \in 1 .. Len(s) :
                      s[j] = sep /\ \A m \in 1 .. (j - 1) : s[m] # sep
         IN <<SubSeq(s, 1, i - 1)>> \o SplitOn(SubSeq(s, i + 1, Len(s)), sep)

\* str::lines: the pieces between line feeds, without the empty piece after
\* a final line feed.
Lines(s) ==
    LET p == SplitOn(s, "\n")
    IN IF p[Len(p)] = <<>> THEN SubSeq(p, 1, Len(p) - 1) ELSE p

\* line.parse::<Multiaddr>(): the text is split on "/"; the piece before the
\* first "/" must be empty; every later piece must name a protocol.  The
\* address is the sequence of its protocols; the empty text parses to the
\* empty address.
Parse(line) ==
    LET parts == SplitOn(line, "/")
        rest == SubSeq(parts, 2, Len(parts))
    IN IF parts[1] # <<>>
       THEN Err("Multiaddr")
       ELSE IF \A i \in 1 .. Len(rest) : rest[i] = <<"q">>
            THEN Ok([i \in 1 .. Len(rest) |-> "q"])
            ELSE Err("Multiaddr")

RECURSIVE FilterMapParse(_)
\* lines.filter_map(|line| line.parse().ok()).collect()
FilterMapParse(ls) ==
    IF ls = <<>>
    THEN <<>>
    ELSE LET r == Parse(Head(ls))
         IN (IF r.tag = "Ok" THEN <<r.val>> ELSE <<>>)
                \o FilterMapParse(Tail(ls))

\* fn peers
peers(file) ==
    IF file.exists THEN Ok(FilterMapParse(Lines(file.bytes))) ELSE Ok(<<>>)

\* ------------------------------------------------------------------ state
VARIABLES
    fs_key,      \* the identity file (options.keypair)
    fs_peers,    \* the peer list file (options.peers)
    run,         \* the number of the current process run
    pc,          \* main's position
    keyRet,      \* what keypair() returned in this run
    prevKeyFile, \* the identity file as keypair() found it in this run
    peersRet,    \* what peers() returned in this run
    dialIdx,     \* the index of the next address of the dial loop
    polled,      \* swarm events polled in this run
    parked,      \* the driver returned Poll::Pending and waits for a wake-up
    log,         \* the lines logged in this run
    exit,        \* what main returned
    genRun,      \* the run that generated the identity, 0 when none did
    genKey,      \* the key material that run generated
    genFile      \* the identity file as that run left it

vars ==
    <<fs_key, fs_peers, run, pc, keyRet, prevKeyFile, peersRet, dialIdx,
      polled, parked, log, exit, genRun, genKey, genFile>>

fsVars == <<fs_key, fs_peers>>
genVars == <<genRun, genKey, genFile>>

Info(m) == [lvl |-> "info", msg |-> m]
Warn(m) == [lvl |-> "warn", msg |-> m]

\* The results a call into the swarm can hand back to main.
TransportOutcomes == {"Ok", "IO", "Transport"}
DialOutcomes == {"Ok", "Err"}

\* ------------------------------------------------------------ file sets
RECURSIVE Strings(_)
\* The texts of at most n characters.
Strings(n) ==
    IF n = 0
    THEN {<<>>}
    ELSE LET shorter == Strings(n - 1)
         IN shorter \cup { Append(s, c) : s \in shorter, c \in Chars }

\* Identity files: none, an encoded keypair, every proper prefix of one, one
\* followed by more bytes, and one with a damaged byte.
KeyFiles ==
    {Absent}
        \cup { File(encode(k)) : k \in KeyIds }
        \cup { File(SubSeq(encode(k), 1, n)) : k \in KeyIds, n \in 0 .. (KeyLen - 1) }
        \cup { File(encode(k) \o <<b>>) : k \in KeyIds, b \in {0, 9} }
        \cup { File([encode(k) EXCEPT ![1] = 255]) : k \in KeyIds }

PeerFiles == {Absent} \cup { File(s) : s \in Strings(MaxPeersLen) }

\* ------------------------------------------------------------------ init
InitRun ==
    /\ run = 1
    /\ pc = "keypair"
    /\ keyRet = NotCalled
    /\ prevKeyFile = Absent
    /\ peersRet = NotCalled
    /\ dialIdx = 1
    /\ polled = 0
    /\ parked = FALSE
    /\ log = <<>>
    /\ exit = NotCalled
    /\ genRun = 0
    /\ genKey = <<>>
    /\ genFile = Absent

\* Any identity file, with a small peer list.
InitIdentity ==
    /\ fs_key \in KeyFiles
    /\ fs_peers \in {Absent, File(<<"/", "q">>)}
    /\ InitRun

\* Any peer list file, with no identity yet.
InitPeers ==
    /\ fs_key = Absent
    /\ fs_peers \in PeerFiles
    /\ InitRun

Init == InitIdentity

\* --------------------------------------------------------------- actions
\* main, line 100: let keypair = keypair(&options)?
MainKeypair ==
    /\ pc = "keypair"
    /\ \E k \in KeyIds :
        LET r == keypair(fs_key, k)
        IN /\ fs_key' = r.file
           /\ keyRet' = r.ret
           /\ prevKeyFile' = fs_key
           /\ IF fs_key.exists
              THEN UNCHANGED genVars
              ELSE /\ genRun' = run
                   /\ genKey' = r.ret.val
                   /\ genFile' = r.file
           /\ IF r.ret.tag = "Ok"
              THEN /\ pc' = "peers"
                   /\ log' = Append(log, Info("peer_id"))
                   /\ UNCHANGED exit
              ELSE /\ pc' = "exit"
                   /\ exit' = Err(r.ret.err)
                   /\ UNCHANGED log
    /\ UNCHANGED <<fs_peers, run, peersRet, dialIdx, polled, parked>>

\* main, lines 105-107: let peers = peers(&options)?
MainPeers ==
    /\ pc = "peers"
    /\ peersRet' = peers(fs_peers)
    /\ log' = Append(log, Info("peers"))
    /\ pc' = "listen"
    /\ UNCHANGED <<fsVars, run, keyRet, prevKeyFile, dialIdx, polled, parked,
                   exit, genVars>>

\* main, lines 109-115: the transport is built and the swarm listens; either
\* call may fail, and main returns the error.
MainListen ==
    /\ pc = "listen"
    /\ \E o \in TransportOutcomes :
        IF o = "Ok"
        THEN /\ pc' = "dial"
             /\ UNCHANGED exit
        ELSE /\ pc' = "exit"
             /\ exit' = Err(o)
    /\ UNCHANGED <<fsVars, run, keyRet, prevKeyFile, peersRet, dialIdx, polled,
                   parked, log, genVars>>

\* main, lines 117-122: one pass of the dial loop.
MainDial ==
    /\ pc = "dial"
    /\ dialIdx <= Len(peersRet.val)
    /\ \E o \in DialOutcomes :
        log' = Append(log, IF o = "Ok" THEN Info("connected") ELSE Warn("dial"))
    /\ dialIdx' = dialIdx + 1
    /\ UNCHANGED <<fsVars, run, pc, keyRet, prevKeyFile, peersRet, polled,
                   parked, exit, genVars>>

\* main, lines 117-124: the dial loop is over and the driver starts.
MainDialDone ==
    /\ pc = "dial"
    /\ dialIdx > Len(peersRet.val)
    /\ pc' = "drive"
    /\ UNCHANGED <<fsVars, run, keyRet, prevKeyFile, peersRet, dialIdx, polled,
                   parked, log, exit, genVars>>

\* main, line 126: Poll::Ready(Some(event)) is logged and the loop goes on.
DriveEvent ==
    /\ pc = "drive"
    /\ ~parked
    /\ polled < MaxEvents
    /\ polled' = polled + 1
    /\ log' = Append(log, Info("event"))
    /\ UNCHANGED <<fsVars, run, pc, keyRet, prevKeyFile, peersRet, dialIdx,
                   parked, exit, genVars>>

\* main, lines 127 and 133: Poll::Ready(None) ends the driver; main returns Ok.
DriveNone ==
    /\ pc = "drive"
    /\ ~parked
    /\ pc' = "exit"
    /\ exit' = Ok(<<>>)
    /\ UNCHANGED <<fsVars, run, keyRet, prevKeyFile, peersRet, dialIdx, polled,
                   parked, log, genVars>>

\* main, line 128: Poll::Pending suspends the driver.
DrivePending ==
    /\ pc = "drive"
    /\ ~parked
    /\ parked' = TRUE
    /\ UNCHANGED <<fsVars, run, pc, keyRet, prevKeyFile, peersRet, dialIdx,
                   polled, log, exit, genVars>>

\* main, line 124: the waker has the closure polled again.
DriveWake ==
    /\ pc = "drive"
    /\ parked
    /\ parked' = FALSE
    /\ UNCHANGED <<fsVars, run, pc, keyRet, prevKeyFile, peersRet, dialIdx,
                   polled, log, exit, genVars>>

\* main, line 97: the process has ended and is started again over the same
\* files.
Restart ==
    /\ pc = "exit"
    /\ run < MaxRuns
    /\ run' = run + 1
    /\ pc' = "keypair"
    /\ keyRet' = NotCalled
    /\ prevKeyFile' = Absent
    /\ peersRet' = NotCalled
    /\ dialIdx' = 1
    /\ polled' = 0
    /\ parked' = FALSE
    /\ log' = <<>>
    /\ exit' = NotCalled
    /\ UNCHANGED <<fsVars, genVars>>

Next ==
    \/ MainKeypair
    \/ MainPeers
    \/ MainListen
    \/ MainDial
    \/ MainDialDone
    \/ DriveEvent
    \/ DriveNone
    \/ DrivePending
    \/ DriveWake
    \/ Restart

Spec == Init /\ [][Next]_vars

SpecIdentity == InitIdentity /\ [][Next]_vars

SpecPeers == InitPeers /\ [][Next]_vars

TypeOK ==
    /\ run \in 1 .. MaxRuns
    /\ pc \in {"keypair", "peers", "listen", "dial", "drive", "exit"}
    /\ keyRet.tag \in {"None", "Ok", "Err"}
    /\ peersRet.tag \in {"None", "Ok"}
    /\ dialIdx \in 1 .. (MaxPeersLen + 2)
    /\ polled \in 0 .. MaxEvents
    /\ parked \in BOOLEAN
    /\ genRun \in 0 .. MaxRuns

\* ---------------------------------------------------------------- claims
\* C6: once a run has generated an identity on a path that held no key file,
\* every later run's keypair() returns exactly the generated key material
\* (hence the same peer identity), finds the file as the generating run left
\* it and leaves it so.
IdentityRoundTrip ==
    (genRun # 0 /\ run > genRun /\ keyRet.tag # "None")
        => /\ keyRet = Ok(genKey)
           /\ PeerIdOf(keyRet.val) = PeerIdOf(genKey)
           /\ prevKeyFile = genFile
           /\ fs_key = genFile

\* C6, its case: a run after the generating one has loaded the identity.
IdentityReloaded ==
    /\ genRun # 0
    /\ run > genRun
    /\ keyRet.tag = "Ok"
    /\ prevKeyFile.exists

\* C7: when keypair() finds a key file whose length is not the length of an
\* encoded key, or whose content is not valid key material, it returns a
\* decoding error and leaves the file unchanged.
CorruptKeyFileRejected ==
    (/\ keyRet.tag # "None"
     /\ prevKeyFile.exists
     /\ \/ Len(prevKeyFile.bytes) # KeyLen
        \/ prevKeyFile.bytes \notin ValidKeyMaterial)
        => /\ keyRet = Err("Decoding")
           /\ fs_key = prevKeyFile

\* The addresses of the lines that are not blank and parse, in file order.
ParsedNonBlank(file) ==
    LET keep(line) == line # <<>> /\ Parse(line).tag = "Ok"
        kept == SelectSeq(Lines(file.bytes), keep)
    IN [i \in 1 .. Len(kept) |-> Parse(kept[i]).val]

\* C5: peers() returns, without error, exactly the addresses of the lines
\* that parse, in file order, skipping the blank and the unparseable lines;
\* for a missing file it returns the empty sequence.
PeerListSkipsBlankAndUnparseable ==
    peersRet.tag # "None"
        => peersRet = Ok(IF fs_peers.exists THEN ParsedNonBlank(fs_peers) ELSE <<>>)

====
